---- MODULE Spec2Model ----
(***************************************************************************)
(* Model of SemanticSearcher (src/Semantic_Search.py): a TF-IDF index over *)
(* a product catalog with cosine-similarity queries.                       *)
(*                                                                         *)
(* Conventions                                                             *)
(*  - a Python str is a sequence of one-character strings; a JSON value    *)
(*    that may or may not be a str is a record [isstr, s];                 *)
(*  - Python positions are 0-based: Python seq[i] is TLA seq[i + 1];       *)
(*  - a call's outcome is [kind |-> "return", value |-> v] or              *)
(*    [kind |-> "raise", exc |-> name];                                    *)
(*  - a similarity (a float in the code) is kept exactly, as the reduced   *)
(*    fraction num/den of the SQUARED cosine (all weights are >= 0, so     *)
(*    squaring keeps order, equality and sign); the -1 that                *)
(*    similar_products writes is the fraction -1/1.                        *)
(*                                                                         *)
(* Specifications                                                          *)
(*  - Spec: a caller of the methods, in any order, on small catalogs;      *)
(*  - ChocoSpec: the same caller on the catalog of the chocolate scenario; *)
(*  - TextSpec: the engine on a catalog and a query made of any short text;*)
(*  - RepeatSpec: a caller that repeats queries it remembers;              *)
(*  - MainSpec: main() with interactive_search(), at a terminal where      *)
(*    lines may be typed ahead;                                            *)
(*  - InteractiveSpec: MainSpec where the loop takes its turn once a line  *)
(*    is typed;                                                            *)
(*  - AnalyzerSpec: DataAnalyzer (src/analyse.py) cleaning a price column. *)
(***************************************************************************)
EXTENDS Integers, Sequences, FiniteSets, TLC

\* ------------------------------------------------------------------------
\* Bounds of the exploration
\* ------------------------------------------------------------------------
MaxTopK == 2
MaxIndex == 2
MaxBatch == 2
MaxText == 3
MaxPending == 2
MaxRows == 2

\* ------------------------------------------------------------------------
\* Characters
\* ------------------------------------------------------------------------
LowerLetters ==
  <<"a", "b", "c", "d", "e", "f", "g", "h", "i", "j", "k", "l", "m",
    "n", "o", "p", "q", "r", "s", "t", "u", "v", "w", "x", "y", "z">>

UpperLetters ==
  <<"A", "B", "C", "D", "E", "F", "G", "H", "I", "J", "K", "L", "M",
    "N", "O", "P", "Q", "R", "S", "T", "U", "V", "W", "X", "Y", "Z">>

\* the characters the regex class \s matches, among those the catalogs use
WhiteSpace == {" ", "\t"}

IsLower(c) == \E i \in 1..26 : LowerLetters[i] = c

\* str.lower() on one character (characters other than A-Z that have a
\* lowercase form map to characters outside a-z and are removed afterwards)
LowerChar(c) ==
  IF \E i \in 1..26 : UpperLetters[i] = c
    THEN LowerLetters[CHOOSE i \in 1..26 : UpperLetters[i] = c]
    ELSE IF c = "É" THEN "é" ELSE c

Str(s) == [isstr |-> TRUE, s |-> s]

NonStr == [isstr |-> FALSE, s |-> <<>>]

\* ------------------------------------------------------------------------
\* preprocess_text
\* ------------------------------------------------------------------------
RECURSIVE SkipSpaces(_)
SkipSpaces(s) ==
  IF s # <<>> /\ Head(s) \in WhiteSpace THEN SkipSpaces(Tail(s)) ELSE s

\* re.sub(r'\s+', ' ', text)
RECURSIVE CollapseSpaces(_)
CollapseSpaces(s) ==
  IF s = <<>> THEN <<>>
  ELSE IF Head(s) \in WhiteSpace
    THEN <<" ">> \o CollapseSpaces(SkipSpaces(Tail(s)))
    ELSE <<Head(s)>> \o CollapseSpaces(Tail(s))

RECURSIVE DropTrailingSpaces(_)
DropTrailingSpaces(s) ==
  IF s # <<>> /\ s[Len(s)] \in WhiteSpace
    THEN DropTrailingSpaces(SubSeq(s, 1, Len(s) - 1))
    ELSE s

\* str.strip()
Strip(s) == DropTrailingSpaces(SkipSpaces(s))

\* re.sub(r'[^a-z\s]', '', text)
KeepLettersAndSpaces(s) ==
  SelectSeq(s, LAMBDA c : IsLower(c) \/ c \in WhiteSpace)

LowerStr(s) == [i \in 1..Len(s) |-> LowerChar(s[i])]

\* the whitespace collapsed before the other characters are removed
preprocess_text_collapse_first(text) ==
  IF ~text.isstr THEN <<>>
  ELSE Strip(KeepLettersAndSpaces(CollapseSpaces(LowerStr(text.s))))

preprocess_text(text) ==
  IF ~text.isstr THEN <<>>
  ELSE Strip(CollapseSpaces(KeepLettersAndSpaces(LowerStr(text.s))))

\* ------------------------------------------------------------------------
\* TfidfVectorizer(max_features=5000, lowercase=True, stop_words='english',
\*                 ngram_range=(1, 2), min_df=1, max_df=0.9)
\* ------------------------------------------------------------------------
max_features == 5000
min_df == 1
\* max_df = 0.9, kept as the fraction max_df_num / max_df_den
max_df_num == 9
max_df_den == 10

\* the members of scikit-learn's English stop-word list that the catalogs
\* and queries of this model can produce
stop_words ==
  { <<"t", "h", "e">>, <<"a", "n", "d">>, <<"o", "f">>, <<"d", "e">>,
    <<"w", "h", "o", "l", "e">> }

\* token_pattern r"(?u)\b\w\w+\b" on lowercased text: maximal runs of word
\* characters of length at least 2 (the text is [a-z\s] after lowercase)
RECURSIVE SplitWords(_, _)
SplitWords(s, cur) ==
  IF s = <<>> THEN (IF cur = <<>> THEN <<>> ELSE <<cur>>)
  ELSE IF IsLower(LowerChar(Head(s)))
    THEN SplitWords(Tail(s), Append(cur, LowerChar(Head(s))))
    ELSE (IF cur = <<>> THEN <<>> ELSE <<cur>>) \o SplitWords(Tail(s), <<>>)

Tokens(s) ==
  SelectSeq(SplitWords(s, <<>>), LAMBDA w : Len(w) >= 2 /\ w \notin stop_words)

\* ngram_range (1, 1): no bigrams
Analyze_unigrams(s) == Tokens(s)

\* word n-grams for ngram_range (1, 2): the tokens, then every pair of
\* consecutive tokens joined by one space
Analyze(s) ==
  LET tok == Tokens(s)
  IN tok \o [i \in 1..(IF Len(tok) = 0 THEN 0 ELSE Len(tok) - 1) |->
               tok[i] \o <<" ">> \o tok[i + 1]]

Range(f) == {f[i] : i \in DOMAIN f}

Count(seq, x) == Cardinality({i \in DOMAIN seq : seq[i] = x})

RECURSIVE SumOver(_, _)
SumOver(S, f) ==
  IF S = {} THEN 0
  ELSE LET x == CHOOSE y \in S : TRUE IN f[x] + SumOver(S \ {x}, f)

Min(a, b) == IF a <= b THEN a ELSE b

\* smooth idf ln((1 + N) / (1 + df)) + 1 in fixed point with one decimal,
\* idf[N][df] for N documents
idf ==
  << <<10>>,
     <<14, 10>>,
     <<17, 13, 10>>,
     <<19, 15, 12, 10>>,
     <<21, 17, 14, 12, 10>>,
     <<23, 18, 16, 13, 12, 10>> >>

NotFitted == [fitted |-> FALSE, idf_ |-> <<>>]

\* the vocabulary of a fitted vectorizer is the domain of its idf vector
Vocabulary(vec) == DOMAIN vec.idf_

\* CountVectorizer._limit_features: document-frequency pruning, then the
\* max_features most frequent terms of what is left
LimitFeatures(terms, dfs, tfs, n_doc) ==
  LET mask == {t \in terms : /\ dfs[t] >= min_df
                             /\ dfs[t] * max_df_den <= max_df_num * n_doc}
  IN IF Cardinality(mask) <= max_features THEN mask
     ELSE CHOOSE S \in SUBSET mask :
            /\ Cardinality(S) = max_features
            /\ \A t \in S, u \in mask \ S : tfs[t] >= tfs[u]

\* one row of the tf-idf matrix: term count times idf for every term of the
\* vocabulary.  The row is kept by its direction; the L2 scaling the
\* vectorizer applies is applied (again) by cosine_similarity.
TfidfRow(idf_, analyzed) ==
  [t \in DOMAIN idf_ |-> Count(analyzed, t) * idf_[t]]

\* TfidfVectorizer.fit_transform(processed_titles): the outcome is either an
\* exception or the fitted state and the matrix
FitTransform(docs) ==
  LET n_doc == Len(docs)
      analyzed == [i \in 1..n_doc |-> Analyze(docs[i])]
      terms == UNION {Range(analyzed[i]) : i \in 1..n_doc}
      dfs == [t \in terms |->
                Cardinality({i \in 1..n_doc : t \in Range(analyzed[i])})]
      tfs == [t \in terms |->
                SumOver(1..n_doc, [i \in 1..n_doc |-> Count(analyzed[i], t)])]
      kept == LimitFeatures(terms, dfs, tfs, n_doc)
      idf_ == [t \in kept |-> idf[n_doc][dfs[t]]]
  IN IF terms = {}
       THEN [ok |-> FALSE, exc |-> "ValueError", vec |-> NotFitted, rows |-> <<>>]
     ELSE IF max_df_num * n_doc < min_df * max_df_den
       THEN [ok |-> FALSE, exc |-> "ValueError", vec |-> NotFitted, rows |-> <<>>]
     ELSE IF kept = {}
       THEN [ok |-> FALSE, exc |-> "ValueError", vec |-> NotFitted, rows |-> <<>>]
     ELSE [ok |-> TRUE, exc |-> "",
           vec |-> [fitted |-> TRUE, idf_ |-> idf_],
           rows |-> [i \in 1..n_doc |-> TfidfRow(idf_, analyzed[i])]]

\* TfidfVectorizer.transform([text]).toarray()[0] on a fitted vectorizer
Transform(vec, text) == TfidfRow(vec.idf_, Analyze(text))

\* ------------------------------------------------------------------------
\* Similarities
\* ------------------------------------------------------------------------
RECURSIVE GCD(_, _)
GCD(a, b) == IF b = 0 THEN a ELSE GCD(b, a % b)

Frac(n, d) == LET g == GCD(n, d) IN [num |-> n \div g, den |-> d \div g]

Zero == [num |-> 0, den |-> 1]

\* the value similar_products stores for the product itself
Sentinel == [num |-> -1, den |-> 1]

\* a/b < c/d for a, c >= 0 and b, d > 0, by continued fractions, so that no
\* product leaves the integer range
RECURSIVE RatLess(_, _, _, _)
RatLess(a, b, c, d) ==
  LET qa == a \div b
      qc == c \div d
      ra == a % b
      rc == c % d
  IN IF qa # qc THEN qa < qc
     ELSE IF rc = 0 THEN FALSE
     ELSE IF ra = 0 THEN TRUE
     ELSE RatLess(d, rc, b, ra)

Less(x, y) ==
  IF x.num < 0 THEN y.num >= 0
  ELSE IF y.num < 0 THEN FALSE
  ELSE RatLess(x.num, x.den, y.num, y.den)

Positive(x) == x.num > 0

\* cosine_similarity of two rows: 0 when either has norm 0
Cosine(q, d) ==
  LET V == DOMAIN q
      dot == SumOver(V, [t \in V |-> q[t] * d[t]])
      nq == SumOver(V, [t \in V |-> q[t] * q[t]])
      nd == SumOver(V, [t \in V |-> d[t] * d[t]])
  IN IF nq = 0 \/ nd = 0 THEN Zero ELSE Frac(dot * dot, nq * nd)

\* cosine_similarity(query_embedding, rows)[0]
cosine_similarity(q, rows) == [i \in 1..Len(rows) |-> Cosine(q, rows[i])]

\* np.argsort(similarities): the 0-based positions in ascending order of
\* value.  The default sort kind is not stable, so the order of equal values
\* depends on the build: "stable" keeps equal values in index order,
\* "reversed" stands for a build that does not.
ArgSortRank(sims, i, ties) ==
  Cardinality({j \in 1..Len(sims) :
     \/ Less(sims[j], sims[i])
     \/ /\ sims[j] = sims[i]
        /\ IF ties = "stable" THEN j < i ELSE j > i})

argsort(sims, ties) ==
  [p \in 1..Len(sims) |->
     (CHOOSE i \in 1..Len(sims) : ArgSortRank(sims, i, ties) = p - 1) - 1]

\* seq[::-1]
Reversed(seq) == [p \in 1..Len(seq) |-> seq[Len(seq) + 1 - p]]

\* seq[:k] for k >= 0
Take(seq, k) == SubSeq(seq, 1, Min(k, Len(seq)))

\* the [::-1] left out: the top_k lowest
TopIndices_ascending(sims, top_k, ties) == Take(argsort(sims, ties), top_k)

\* np.argsort(similarities)[::-1][:top_k]
TopIndices(sims, top_k, ties) == Take(Reversed(argsort(sims, ties)), top_k)

\* ------------------------------------------------------------------------
\* Catalog files (produits_marjane.json) and queries the exploration uses
\* ------------------------------------------------------------------------
Product(title, price) == [title |-> title, price |-> price, image |-> "img"]

LaitBio == Str(<<"L", "a", "i", "t", " ", "B", "i", "o">>)
TvLed4k == Str(<<"T", "V", " ", "L", "E", "D", " ", "4", "K">>)
LaitChoco == Str(<<"L", "a", "i", "t", " ", "C", "h", "o", "c", "o">>)
TvLed == Str(<<"T", "V", " ", "L", "E", "D">>)

CatEmpty == <<>>
CatOne == <<Product(LaitBio, "12 DH")>>
CatTwo == <<Product(TvLed, "999 DH"), Product(NonStr, "5 DH")>>
\* two products with the same title (equal scores) and one sharing a word
CatFour ==
  <<Product(LaitBio, "12 DH"), Product(TvLed4k, "999 DH"),
    Product(LaitBio, "10 DH"), Product(LaitChoco, "8 DH")>>

Catalogs == {CatEmpty, CatOne, CatTwo, CatFour}

\* the catalog of the chocolate scenario
DarkChocolateBar == Str(<<
    "D", "a", "r", "k", " ", "C", "h", "o", "c", "o", "l", "a", "t",
    "e", " ", "B", "a", "r", " ", "1", "0", "0", "g", " ", "-", " ",
    "L", "I", "N", "D", "T" >>)
WholeMilk == Str(<<
    "W", "h", "o", "l", "e", " ", "M", "i", "l", "k", " ", "1", "L",
    " ", "-", " ", "C", "E", "N", "T", "R", "A", "L", "E" >>)
MilkChocolate == Str(<<
    "M", "i", "l", "k", " ", "C", "h", "o", "c", "o", "l", "a", "t",
    "e", " ", "2", "0", "0", "g", " ", "-", " ", "N", "E", "S", "T",
    "L", "E" >>)

CatChoco ==
  <<Product(DarkChocolateBar, "25 DH"), Product(WholeMilk, "9 DH"),
    Product(MilkChocolate, "30 DH")>>

Missing == [exists |-> FALSE, data |-> <<>>]

JsonFiles == {Missing} \cup {[exists |-> TRUE, data |-> c] : c \in Catalogs}

Queries ==
  { <<"L", "A", "I", "T", " ", "b", "i", "o">>,
    <<"t", "v">>,
    <<>> }

Chocolate == <<"c", "h", "o", "c", "o", "l", "a", "t", "e">>

ChocoQueries == {Chocolate, <<"W", "h", "o", "l", "e", " ", "M", "i", "l", "k">>}

\* ------------------------------------------------------------------------
\* The category file produits_marjane_clean.csv (src/analyse.py)
\* ------------------------------------------------------------------------
IsSubstring(sub, s) ==
  \E i \in 0..(Len(s) - Len(sub)) : SubSeq(s, i + 1, i + Len(sub)) = sub

\* the keyword table of categorize_product, in its order, with the keywords
\* that occur in the catalogs above
categories ==
  << [category |-> "Electronique",
      keywords |-> {<<"t", "v">>, <<"l", "g">>}],
     [category |-> "Alimentaire",
      keywords |-> {<<"c", "h", "o", "c", "o", "l", "a", "t">>,
                    <<"l", "a", "i", "t">>, <<"e", "a", "u">>, <<"j", "u", "s">>}],
     [category |-> "Sport & Supporters",
      keywords |-> {<<"m", "u", "g">>, <<"c", "a", "n">>}] >>

categorize_product(title) ==
  IF ~title.isstr \/ title.s = <<>> THEN "Autre"
  ELSE LET title_lower == LowerStr(title.s)
           hits == {i \in 1..Len(categories) :
                      \E k \in categories[i].keywords :
                        IsSubstring(k, title_lower)}
       IN IF hits = {} THEN "Autre"
          ELSE categories[CHOOSE i \in hits : \A j \in hits : i <= j].category

Categories == {"Electronique", "Alimentaire", "Inconnue"}

NoCsv == [exists |-> FALSE, categorie |-> <<>>]

\* ------------------------------------------------------------------------
\* State
\* ------------------------------------------------------------------------
VARIABLES
  products,    \* self.products
  titles,      \* self.titles
  embeddings,  \* self.embeddings: [isnone, rows]
  vectorizer,  \* self.vectorizer: [fitted, idf_]
  csv,         \* the file produits_marjane_clean.csv: [exists, categorie]
  ties,        \* how this build's argsort orders equal values
  pc,          \* who drives the engine: a caller of its methods, or main()
               \* at one of its program points
  asked,       \* an earlier query the caller remembers, with its outcome
  stdin,       \* the lines typed at the terminal and not read yet
  df,          \* DataAnalyzer's self.df: [isnone, price]
  data_cleaned,\* DataAnalyzer's self.data_cleaned:
               \* [isnone, price, en_promotion, type_promotion]
  call,        \* the last call and its arguments
  result       \* the outcome of the last call

vars ==
  <<products, titles, embeddings, vectorizer, csv, ties, pc, asked, stdin,
    df, data_cleaned, call, result>>

\* the DataAnalyzer of src/analyse.py, a program of its own
analyzer == <<df, data_cleaned>>

\* what belongs to the driver of the engine, not to the engine
driver == <<pc, asked, stdin, analyzer>>

\* self.df = None, self.data_cleaned = None
NoFrame == [isnone |-> TRUE, price |-> <<>>]

NoCleaned ==
  [isnone |-> TRUE, price |-> <<>>, en_promotion |-> <<>>,
   type_promotion |-> <<>>]

None == [isnone |-> TRUE, rows |-> <<>>]

\* found tells whether the file a load_products call names exists
NoCall ==
  [op |-> "init", query |-> <<>>, queries |-> <<>>, category |-> "",
   index |-> 0, top_k |-> 0, found |-> FALSE]

\* what a call wrote to its output file: nothing, for every call but
\* export_results
NoFile == [exists |-> FALSE, text |-> <<>>]

\* The outcome of a call.  A returned bool is in ok, a returned list in
\* value, a returned dict in batch (its entries in insertion order), a
\* returned str in text.  vectorized lists the texts the call handed to
\* self.vectorizer (fit_transform or transform), in call order.
NoOutcome ==
  [kind |-> "none", ok |-> FALSE, value |-> <<>>, batch |-> <<>>, exc |-> "",
   text |-> <<>>, vectorized |-> <<>>, written |-> NoFile,
   printed |-> <<>>]

\* no query remembered
NoAsked == [set |-> FALSE, call |-> NoCall, result |-> NoOutcome, csv |-> NoCsv]

ReturnBool(b) == [NoOutcome EXCEPT !.kind = "return", !.ok = b]

Return(v) == [NoOutcome EXCEPT !.kind = "return", !.value = v]

ReturnDict(d) == [NoOutcome EXCEPT !.kind = "return", !.batch = d]

ReturnNone == [NoOutcome EXCEPT !.kind = "return"]

ReturnStr(t) == [NoOutcome EXCEPT !.kind = "return", !.text = t]

Raise(e) == [NoOutcome EXCEPT !.kind = "raise", !.exc = e]

\* the outcome of a call that handed texts to the vectorizer on its way
Vectorized(texts, outcome) == [outcome EXCEPT !.vectorized = texts]

Init ==
  /\ products = <<>>
  /\ titles = <<>>
  /\ embeddings = None
  /\ vectorizer = NotFitted
  /\ csv = NoCsv
  /\ ties \in {"stable", "reversed"}
  /\ pc = "caller"
  /\ asked = NoAsked
  /\ stdin = <<>>
  /\ df = NoFrame
  /\ data_cleaned = NoCleaned
  /\ call = NoCall
  /\ result = NoOutcome

\* ------------------------------------------------------------------------
\* load_products, generate_embeddings
\* ------------------------------------------------------------------------
\* the catalog is emptied before the file is opened
load_products_reset(json_file) ==
  /\ call' = [NoCall EXCEPT !.op = "load_products", !.found = json_file.exists]
  /\ IF json_file.exists
       THEN /\ products' = json_file.data
            /\ titles' = [i \in 1..Len(json_file.data) |-> json_file.data[i].title]
            /\ result' = ReturnBool(TRUE)
       ELSE /\ products' = <<>>
            /\ titles' = <<>>
            /\ result' = ReturnBool(FALSE)
  /\ UNCHANGED <<embeddings, vectorizer, csv, ties>>

load_products(json_file) ==
  /\ call' = [NoCall EXCEPT !.op = "load_products", !.found = json_file.exists]
  /\ IF json_file.exists
       THEN /\ products' = json_file.data
            /\ titles' = [i \in 1..Len(json_file.data) |-> json_file.data[i].title]
            /\ result' = ReturnBool(TRUE)
       ELSE /\ result' = ReturnBool(FALSE)
            /\ UNCHANGED <<products, titles>>
  /\ UNCHANGED <<embeddings, vectorizer, csv, ties>>

generate_embeddings ==
  /\ call' = [NoCall EXCEPT !.op = "generate_embeddings"]
  /\ IF products = <<>>
       THEN /\ result' = ReturnBool(FALSE)
            /\ UNCHANGED <<embeddings, vectorizer>>
       ELSE LET processed_titles ==
                  [i \in 1..Len(titles) |-> preprocess_text(titles[i])]
                fit == FitTransform(processed_titles)
            IN IF fit.ok
                 THEN /\ vectorizer' = fit.vec
                      /\ embeddings' = [isnone |-> FALSE, rows |-> fit.rows]
                      /\ result' = Vectorized(processed_titles, ReturnBool(TRUE))
                 ELSE /\ result' = Vectorized(processed_titles, Raise(fit.exc))
                      /\ UNCHANGED <<embeddings, vectorizer>>
  /\ UNCHANGED <<products, titles, csv, ties>>

\* DataAnalyzer.clean_data and save_cleaned_data on a catalog file: one
\* 'categorie' cell per product, in catalog order
save_cleaned_data(catalog) ==
  /\ catalog # <<>>
  /\ csv' = [exists |-> TRUE,
             categorie |-> [i \in 1..Len(catalog) |->
                              categorize_product(catalog[i].title)]]
  /\ call' = [NoCall EXCEPT !.op = "save_cleaned_data"]
  /\ result' = ReturnNone
  /\ UNCHANGED <<products, titles, embeddings, vectorizer, ties>>

\* ------------------------------------------------------------------------
\* Queries
\* ------------------------------------------------------------------------
\* one entry of a result list; score_pourcentage is similarite * 100 and is
\* not kept separately
ResultItem(idx, sim) ==
  [index |-> idx,
   titre |-> products[idx + 1].title,
   prix |-> products[idx + 1].price,
   image |-> products[idx + 1].image,
   similarite |-> sim]

\* the outcome of search(query, top_k)
SearchOutcome(query, top_k) ==
  IF embeddings.isnone THEN Return(<<>>)
  ELSE
    LET processed_query == preprocess_text(Str(query))
        query_embedding == Transform(vectorizer, processed_query)
        similarities == cosine_similarity(query_embedding, embeddings.rows)
        top_indices == TopIndices(similarities, top_k, ties)
        kept == SelectSeq(top_indices,
                          LAMBDA idx : Positive(similarities[idx + 1]))
    IN Vectorized(<<processed_query>>,
         IF \E p \in 1..Len(kept) : kept[p] >= Len(products)
           THEN Raise("IndexError")
           ELSE Return([p \in 1..Len(kept) |->
                          ResultItem(kept[p], similarities[kept[p] + 1])]))

search(query, top_k) ==
  /\ call' = [NoCall EXCEPT !.op = "search", !.query = query, !.top_k = top_k]
  /\ result' = SearchOutcome(query, top_k)
  /\ UNCHANGED <<products, titles, embeddings, vectorizer, csv, ties>>

\* batch_results[query] = results on a dict that keeps insertion order
DictSet(d, k, v) ==
  IF \E i \in 1..Len(d) : d[i].key = k
    THEN [i \in 1..Len(d) |-> IF d[i].key = k THEN [key |-> k, value |-> v]
                                               ELSE d[i]]
    ELSE Append(d, [key |-> k, value |-> v])

\* the loop of batch_search; seen collects the texts the searches so far
\* handed to the vectorizer
RECURSIVE BatchLoop(_, _, _, _)
BatchLoop(queries, top_k, batch_results, seen) ==
  IF queries = <<>> THEN Vectorized(seen, ReturnDict(batch_results))
  ELSE LET results == SearchOutcome(Head(queries), top_k)
       IN IF results.kind = "raise"
            THEN Vectorized(seen \o results.vectorized, results)
            ELSE BatchLoop(Tail(queries), top_k,
                           DictSet(batch_results, Head(queries), results.value),
                           seen \o results.vectorized)

batch_search(queries, top_k) ==
  /\ call' = [NoCall EXCEPT !.op = "batch_search", !.queries = queries,
                            !.top_k = top_k]
  /\ result' = BatchLoop(queries, top_k, <<>>, <<>>)
  /\ UNCHANGED <<products, titles, embeddings, vectorizer, csv, ties>>

\* a category without members falls back to the whole file
CategoryIndices_all(category) ==
  LET members == SelectSeq([i \in 1..Len(csv.categorie) |-> i - 1],
                           LAMBDA idx : csv.categorie[idx + 1] = category)
  IN IF members = <<>> THEN [i \in 1..Len(csv.categorie) |-> i - 1]
                       ELSE members

\* df[df['categorie'] == category].index.tolist()
CategoryIndices(category) ==
  SelectSeq([i \in 1..Len(csv.categorie) |-> i - 1],
            LAMBDA idx : csv.categorie[idx + 1] = category)

\* the subset positions taken for catalog indices
TopGlobalIndices_unmapped(category_indices, top_local_indices) ==
  top_local_indices

\* top_global_indices = [category_indices[i] for i in top_local_indices]
TopGlobalIndices(category_indices, top_local_indices) ==
  [p \in 1..Len(top_local_indices) |->
     category_indices[top_local_indices[p] + 1]]

CategoryOutcome(query, category, top_k) ==
  LET category_indices == CategoryIndices(category)
  IN IF ~csv.exists THEN Return(<<>>)
     ELSE IF category_indices = <<>> THEN Return(<<>>)
     ELSE IF ~vectorizer.fitted
       THEN Vectorized(<<preprocess_text(Str(query))>>, Raise("NotFittedError"))
     ELSE IF \E p \in 1..Len(category_indices) :
               category_indices[p] >= Len(embeddings.rows)
       THEN Vectorized(<<preprocess_text(Str(query))>>, Raise("IndexError"))
     ELSE
       LET processed_query == preprocess_text(Str(query))
           query_embedding == Transform(vectorizer, processed_query)
           category_embeddings ==
             [p \in 1..Len(category_indices) |->
                embeddings.rows[category_indices[p] + 1]]
           similarities ==
             cosine_similarity(query_embedding, category_embeddings)
           top_local_indices == TopIndices(similarities, top_k, ties)
           top_global_indices ==
             TopGlobalIndices(category_indices, top_local_indices)
       IN Vectorized(<<processed_query>>,
            IF \E p \in 1..Len(top_global_indices) :
                 top_global_indices[p] >= Len(products)
              THEN Raise("IndexError")
              ELSE Return([p \in 1..Len(top_global_indices) |->
                     ResultItem(top_global_indices[p],
                                similarities[top_local_indices[p] + 1])]))

search_by_category(query, category, top_k) ==
  /\ call' = [NoCall EXCEPT !.op = "search_by_category", !.query = query,
                            !.category = category, !.top_k = top_k]
  /\ result' = CategoryOutcome(query, category, top_k)
  /\ UNCHANGED <<products, titles, embeddings, vectorizer, csv, ties>>

\* the 0-based position a Python slice bound denotes on a sequence of n items
SliceBound(b, n) == IF b < 0 THEN (IF b + n < 0 THEN 0 ELSE b + n) ELSE Min(b, n)

\* similarities[product_index] = -1 (a negative index counts from the end)
WithSentinel(similarities, product_index) ==
  LET pos == IF product_index < 0 THEN product_index + Len(similarities)
                                  ELSE product_index
  IN [similarities EXCEPT ![pos + 1] = Sentinel]

SimilarOutcome(product_index, top_k) ==
  IF product_index >= Len(products) THEN Return(<<>>)
  ELSE IF embeddings.isnone THEN Raise("TypeError")
  ELSE
    LET n == Len(embeddings.rows)
        start == SliceBound(product_index, n)
        stop == SliceBound(product_index + 1, n)
    IN IF start >= stop THEN Raise("ValueError")
       ELSE
         LET product_embedding == embeddings.rows[start + 1]
             similarities ==
               WithSentinel(cosine_similarity(product_embedding, embeddings.rows),
                            product_index)
             top_indices == TopIndices(similarities, top_k, ties)
         IN IF \E p \in 1..Len(top_indices) : top_indices[p] >= Len(products)
              THEN Raise("IndexError")
              ELSE Return([p \in 1..Len(top_indices) |->
                     ResultItem(top_indices[p],
                                similarities[top_indices[p] + 1])])

\* the sentinel written into the stored row instead of the local array
similar_products_inplace(product_index, top_k) ==
  /\ call' = [NoCall EXCEPT !.op = "similar_products",
                            !.index = product_index, !.top_k = top_k]
  /\ result' = SimilarOutcome(product_index, top_k)
  /\ embeddings' =
       IF SimilarOutcome(product_index, top_k).kind = "return"
          /\ product_index \in 0..(Len(embeddings.rows) - 1)
         THEN [embeddings EXCEPT !.rows[product_index + 1] =
                 [t \in DOMAIN @ |-> -1]]
         ELSE embeddings
  /\ UNCHANGED <<products, titles, vectorizer, csv, ties>>

similar_products(product_index, top_k) ==
  /\ call' = [NoCall EXCEPT !.op = "similar_products",
                            !.index = product_index, !.top_k = top_k]
  /\ result' = SimilarOutcome(product_index, top_k)
  /\ UNCHANGED <<products, titles, embeddings, vectorizer, csv, ties>>

\* ------------------------------------------------------------------------
\* json.dump(results, f, ensure_ascii=False, indent=2) and json.load
\*
\* The text of the file is kept as its sequence of JSON tokens, each token a
\* sequence of characters; the indentation between tokens carries nothing.
\* A float of the code is the exact fraction num/den here, and its repr,
\* which Python reads back to the same float, is the numeral of num, "/",
\* and the numeral of den.
\* ------------------------------------------------------------------------
DigitChars == <<"0", "1", "2", "3", "4", "5", "6", "7", "8", "9">>

\* int.__repr__
RECURSIVE DumpNat(_)
DumpNat(n) ==
  IF n < 10 THEN <<DigitChars[n + 1]>>
  ELSE DumpNat(n \div 10) \o <<DigitChars[(n % 10) + 1]>>

DumpInt(n) == IF n < 0 THEN <<"-">> \o DumpNat(0 - n) ELSE DumpNat(n)

DigitValue(c) == (CHOOSE i \in 1..10 : DigitChars[i] = c) - 1

RECURSIVE ParseNat(_, _)
ParseNat(s, acc) ==
  IF s = <<>> THEN acc ELSE ParseNat(Tail(s), acc * 10 + DigitValue(Head(s)))

ParseInt(s) ==
  IF Head(s) = "-" THEN 0 - ParseNat(Tail(s), 0) ELSE ParseNat(s, 0)

\* the similarity cut to one decimal
DumpFloat_rounded(x) ==
  DumpInt((x.num * 10) \div x.den) \o <<"/">> \o DumpInt(10)

\* float.__repr__
DumpFloat(x) == DumpInt(x.num) \o <<"/">> \o DumpInt(x.den)

ParseFloat(s) ==
  LET bar == CHOOSE i \in 1..Len(s) : s[i] = "/"
  IN [num |-> ParseInt(SubSeq(s, 1, bar - 1)),
      den |-> ParseInt(SubSeq(s, bar + 1, Len(s)))]

\* the escapes of a JSON string, for the characters the titles and queries
\* of this model can hold
RECURSIVE Escape(_)
Escape(s) ==
  IF s = <<>> THEN <<>>
  ELSE (CASE Head(s) = "\"" -> <<"\\", "\"">>
          [] Head(s) = "\\" -> <<"\\", "\\">>
          [] Head(s) = "\t" -> <<"\\", "t">>
          [] OTHER -> <<Head(s)>>) \o Escape(Tail(s))

RECURSIVE Unescape(_)
Unescape(s) ==
  IF s = <<>> THEN <<>>
  ELSE IF Head(s) = "\\"
    THEN <<(IF s[2] = "t" THEN "\t" ELSE s[2])>> \o Unescape(Tail(Tail(s)))
    ELSE <<Head(s)>> \o Unescape(Tail(s))

DumpStr(s) == <<"\"">> \o Escape(s) \o <<"\"">>

ParseStr(lexeme) == Unescape(SubSeq(lexeme, 2, Len(lexeme) - 1))

JsonNull == <<"n", "u", "l", "l">>

\* a title is whatever JSON value the catalog held: a str, or not
DumpTitle(t) == IF t.isstr THEN DumpStr(t.s) ELSE JsonNull

ParseTitle(lexeme) == IF lexeme = JsonNull THEN NonStr ELSE Str(ParseStr(lexeme))

\* prix and image are opaque strings: one character-like unit each
DumpOpaque(s) == <<"\"", s, "\"">>

ParseOpaque(lexeme) == lexeme[2]

KeyIndex == <<"i", "n", "d", "e", "x">>
KeyTitre == <<"t", "i", "t", "r", "e">>
KeyPrix == <<"p", "r", "i", "x">>
KeyImage == <<"i", "m", "a", "g", "e">>
KeySimilarite == <<"s", "i", "m", "i", "l", "a", "r", "i", "t", "e">>

\* one result dict, its keys in insertion order
DumpItem(r) ==
  << <<"{">>,
     DumpStr(KeyIndex), <<":">>, DumpInt(r.index), <<",">>,
     DumpStr(KeyTitre), <<":">>, DumpTitle(r.titre), <<",">>,
     DumpStr(KeyPrix), <<":">>, DumpOpaque(r.prix), <<",">>,
     DumpStr(KeyImage), <<":">>, DumpOpaque(r.image), <<",">>,
     DumpStr(KeySimilarite), <<":">>, DumpFloat(r.similarite),
     <<"}">> >>

RECURSIVE DumpItems(_)
DumpItems(v) ==
  IF v = <<>> THEN <<>>
  ELSE IF Len(v) = 1 THEN DumpItem(v[1])
  ELSE DumpItem(v[1]) \o << <<",">> >> \o DumpItems(Tail(v))

DumpList(v) == << <<"[">> >> \o DumpItems(v) \o << <<"]">> >>

RECURSIVE DumpEntries(_)
DumpEntries(d) ==
  IF d = <<>> THEN <<>>
  ELSE LET entry == <<DumpStr(d[1].key), <<":">>>> \o DumpList(d[1].value)
       IN IF Len(d) = 1 THEN entry
          ELSE entry \o << <<",">> >> \o DumpEntries(Tail(d))

DumpDict(d) == << <<"{">> >> \o DumpEntries(d) \o << <<"}">> >>

\* the members "key": scalar of an object, from the token after its "{" or
\* after a ","; next is the position after the closing "}"
RECURSIVE ParseMembers(_, _, _)
ParseMembers(tokens, pos, fields) ==
  IF tokens[pos] = <<"}">> THEN [fields |-> fields, next |-> pos + 1]
  ELSE IF tokens[pos] = <<",">> THEN ParseMembers(tokens, pos + 1, fields)
  ELSE ParseMembers(tokens, pos + 3,
         Append(fields, [key |-> ParseStr(tokens[pos]), lexeme |-> tokens[pos + 2]]))

Field(fields, key) ==
  fields[CHOOSE i \in 1..Len(fields) : fields[i].key = key].lexeme

ParseItem(fields) ==
  [index |-> ParseInt(Field(fields, KeyIndex)),
   titre |-> ParseTitle(Field(fields, KeyTitre)),
   prix |-> ParseOpaque(Field(fields, KeyPrix)),
   image |-> ParseOpaque(Field(fields, KeyImage)),
   similarite |-> ParseFloat(Field(fields, KeySimilarite))]

\* the objects of an array, from the token after its "["
RECURSIVE ParseItems(_, _, _)
ParseItems(tokens, pos, items) ==
  IF tokens[pos] = <<"]">> THEN [items |-> items, next |-> pos + 1]
  ELSE IF tokens[pos] = <<",">> THEN ParseItems(tokens, pos + 1, items)
  ELSE LET object == ParseMembers(tokens, pos + 1, <<>>)
       IN ParseItems(tokens, object.next, Append(items, ParseItem(object.fields)))

\* the members "query": array of the top-level object
RECURSIVE ParseEntries(_, _, _)
ParseEntries(tokens, pos, entries) ==
  IF tokens[pos] = <<"}">> THEN entries
  ELSE IF tokens[pos] = <<",">> THEN ParseEntries(tokens, pos + 1, entries)
  ELSE LET list == ParseItems(tokens, pos + 3, <<>>)
       IN ParseEntries(tokens, list.next,
            DictSet(entries, ParseStr(tokens[pos]), list.items))

\* json.dump of a result list or of a batch_results dict
json_dump(is_dict, value, batch) ==
  IF is_dict THEN DumpDict(batch) ELSE DumpList(value)

\* json.load of the text of a file: a list in value, a dict in batch
json_load(tokens) ==
  IF tokens[1] = <<"[">>
    THEN [is_dict |-> FALSE, value |-> ParseItems(tokens, 2, <<>>).items,
          batch |-> <<>>]
    ELSE [is_dict |-> TRUE, value |-> <<>>,
          batch |-> ParseEntries(tokens, 2, <<>>)]

\* export_results(results, filename) on the value the last query returned:
\* a dict from batch_search, a list from the other queries
export_results ==
  /\ result.kind = "return"
  /\ call.op \in {"search", "batch_search", "search_by_category",
                  "similar_products"}
  /\ call' = [call EXCEPT !.op = "export_results"]
  /\ result' = [ReturnNone EXCEPT
                  !.written = [exists |-> TRUE,
                               text |-> json_dump(call.op = "batch_search",
                                                  result.value, result.batch)]]
  /\ UNCHANGED <<products, titles, embeddings, vectorizer, csv, ties>>

\* a call of preprocess_text on a value, and a call of it on the text the
\* previous call returned
call_preprocess_text(text) ==
  /\ call' = [NoCall EXCEPT !.op = "preprocess_text"]
  /\ result' = ReturnStr(preprocess_text(text))
  /\ UNCHANGED <<products, titles, embeddings, vectorizer, csv, ties>>

call_preprocess_text_again ==
  /\ call.op = "preprocess_text"
  /\ call' = [NoCall EXCEPT !.op = "preprocess_text again"]
  /\ result' = ReturnStr(preprocess_text(Str(result.text)))
  /\ UNCHANGED <<products, titles, embeddings, vectorizer, csv, ties>>

\* ------------------------------------------------------------------------
\* Specification
\* ------------------------------------------------------------------------
TopKs == 0..MaxTopK

Indices == (0 - MaxIndex)..MaxIndex

BatchesOf(queries) ==
  UNION {[1..n -> queries] : n \in 0..MaxBatch}

\* the queries the batches are made of: one with matches, and the empty one
BatchQueries == { <<"t", "v">>, <<>> }


\* a caller of the engine's methods, in any order, with catalog files, a
\* cleaned catalog, queries, batches and category labels drawn from the
\* given sets
NextOn(files, cleaned, queries, batches, labels) ==
  \/ \E f \in files : load_products(f) /\ UNCHANGED driver
  \/ generate_embeddings /\ UNCHANGED driver
  \/ \E c \in cleaned : save_cleaned_data(c) /\ UNCHANGED driver
  \/ \E q \in queries, k \in TopKs : search(q, k) /\ UNCHANGED driver
  \/ \E qs \in batches : batch_search(qs, MaxTopK) /\ UNCHANGED driver
  \/ \E q \in queries, c \in labels, k \in TopKs :
       search_by_category(q, c, k) /\ UNCHANGED driver
  \/ \E i \in Indices, k \in TopKs : similar_products(i, k) /\ UNCHANGED driver
  \/ export_results /\ UNCHANGED driver

Next ==
  NextOn(JsonFiles, {CatFour}, Queries, BatchesOf(BatchQueries), Categories)

Spec == Init /\ [][Next]_vars

\* the same caller on the chocolate catalog
ChocoFiles ==
  {Missing, [exists |-> TRUE, data |-> CatEmpty],
   [exists |-> TRUE, data |-> CatChoco]}

ChocoNext ==
  NextOn(ChocoFiles, {CatChoco}, ChocoQueries, BatchesOf({Chocolate}),
         {"Alimentaire", "Inconnue"})

ChocoSpec == Init /\ [][ChocoNext]_vars

\* ------------------------------------------------------------------------
\* Properties
\* ------------------------------------------------------------------------
QueryOps ==
  {"search", "batch_search", "search_by_category", "similar_products",
   "export_results"}

Built == ~embeddings.isnone

\* the similarity of the last call's query to row idx of the stored matrix
ScoreOf(idx) ==
  Cosine(Transform(vectorizer, preprocess_text(Str(call.query))),
         embeddings.rows[idx + 1])

ResultIndices == {result.value[p].index : p \in 1..Len(result.value)}

\* C1: for a valid index i, the list similar_products(i, top_k) returns has
\* no entry whose index is i, whatever top_k is.
C1_SelfExcluded ==
  (/\ call.op = "similar_products"
   /\ call.index \in 0..(Len(products) - 1)
   /\ result.kind = "return")
  => call.index \notin ResultIndices

\* C2: the list search returns is in descending order of similarity, equal
\* similarities come in ascending order of index, and an item left out at
\* the top_k cut-off that ties with a returned one has the larger index.
C2_TiesAscending ==
  (call.op = "search" /\ result.kind = "return" /\ Built)
  => /\ \A p, q \in 1..Len(result.value) :
          p < q =>
            /\ ~Less(result.value[p].similarite, result.value[q].similarite)
            /\ result.value[p].similarite = result.value[q].similarite
                 => result.value[p].index < result.value[q].index
     /\ \A p \in 1..Len(result.value) :
          \A j \in 0..(Len(embeddings.rows) - 1) :
            (j \notin ResultIndices /\ ScoreOf(j) = result.value[p].similarite)
              => result.value[p].index < j

\* the number of rows with a strictly positive similarity to the query
PositiveCount ==
  Cardinality({j \in 0..(Len(embeddings.rows) - 1) : Positive(ScoreOf(j))})

\* C3: on a built index search returns exactly min(top_k, P) results, P the
\* number of items with positive similarity, each with similarity > 0.
C3_ExactCount ==
  (call.op = "search" /\ Built)
  => /\ result.kind = "return"
     /\ Len(result.value) = Min(call.top_k, PositiveCount)
     /\ \A p \in 1..Len(result.value) : Positive(result.value[p].similarite)

\* C4: every entry search_by_category and similar_products return has a
\* strictly positive similarity.
C4_PositiveOnly ==
  (/\ call.op \in {"search_by_category", "similar_products"}
   /\ result.kind = "return")
  => \A p \in 1..Len(result.value) : Positive(result.value[p].similarite)

\* C5: for an index that is not a valid catalog index, similar_products
\* neither raises nor returns a list (empty or not): its outcome is a
\* failure that differs from the empty result.
C5_OutOfRange ==
  (/\ call.op = "similar_products"
   /\ call.index \notin 0..(Len(products) - 1))
  => result.kind \notin {"raise", "return"}

\* an outcome that says "ran and found nothing": an empty list, or a dict
\* whose entries are all empty
FoundNothing ==
  /\ result.kind = "return"
  /\ result.value = <<>>
  /\ \A p \in 1..Len(result.batch) : result.batch[p].value = <<>>

\* C6: a query on an engine whose index is not built does not raise, and
\* its outcome differs from that of a query that ran and found nothing.
C6_NotReady ==
  (/\ call.op \in {"search", "batch_search", "search_by_category",
                   "similar_products"}
   /\ ~Built)
  => (result.kind # "raise" /\ ~FoundNothing)

\* C7: whenever the matrix exists it has one row per loaded product.
C7_RowsMatchCatalog == Built => Len(embeddings.rows) = Len(products)

\* C8: with an empty catalog loaded, generate_embeddings returns False and
\* search returns the empty list.
C8_EmptyCatalog ==
  /\ (call.op = "generate_embeddings" /\ products = <<>>)
       => result = ReturnBool(FALSE)
  /\ (call.op = "search" /\ products = <<>>) => result = Return(<<>>)

\* C9: a step that is a query or an export leaves the catalog, the fitted
\* vocabulary and the matrix as they were.
C9_QueriesReadOnly ==
  [][call'.op \in QueryOps
       => UNCHANGED <<products, titles, vectorizer, embeddings>>]_vars

\* similar_products returned a list holding its own -1 entry: the sentinel
\* was written and handed back
C9_Witness ==
  /\ call.op = "similar_products"
  /\ result.kind = "return"
  /\ \E p \in 1..Len(result.value) : result.value[p].similarite = Sentinel

\* C10: every entry search_by_category returns is a row of the requested
\* category, with the title of that product and the similarity of the query
\* to that row of the matrix.
C10_CategoryIndices ==
  (call.op = "search_by_category" /\ result.kind = "return")
  => \A p \in 1..Len(result.value) :
       LET r == result.value[p]
       IN /\ r.index \in 0..(Len(csv.categorie) - 1)
          /\ csv.categorie[r.index + 1] = call.category
          /\ r.titre = products[r.index + 1].title
          /\ r.similarite = ScoreOf(r.index)

\* a category search whose best match is not at the head of the category:
\* position in the subset and catalog index differ
C10_Witness ==
  /\ call.op = "search_by_category"
  /\ result.kind = "return"
  /\ \E p \in 1..Len(result.value) :
       /\ result.value[p].index > p
       /\ Positive(result.value[p].similarite)

\* C11: when no row of the category file carries the requested category
\* (the file is missing, or the label is unknown or has no member),
\* search_by_category returns the empty list and does not raise, whatever
\* the query is and whether or not the index is built.
C11_UnknownCategory ==
  (/\ call.op = "search_by_category"
   /\ \A i \in 1..Len(csv.categorie) : csv.categorie[i] # call.category)
  => result = Return(<<>>)

\* an unknown label asked of an existing category file, with a query that
\* has words, on an engine whose vectorizer was never fitted
C11_Witness ==
  /\ call.op = "search_by_category"
  /\ csv.exists
  /\ \A i \in 1..Len(csv.categorie) : csv.categorie[i] # call.category
  /\ call.query # <<>>
  /\ ~vectorizer.fitted
  /\ result = Return(<<>>)

\* the position of the first occurrence of query q in the input sequence
FirstAt(q) == CHOOSE i \in 1..Len(call.queries) :
                /\ call.queries[i] = q
                /\ \A j \in 1..(i - 1) : call.queries[j] # q

\* C12: batch_search returns a mapping with exactly one entry per query
\* string of its input, in input order; each entry is the list search
\* returns for that query and top_k on its own, and the entry of the empty
\* string is the empty list.
C12_BatchMapping ==
  call.op = "batch_search"
  => /\ result.kind = "return"
     /\ \A i \in 1..Len(call.queries) :
          \E p \in 1..Len(result.batch) : result.batch[p].key = call.queries[i]
     /\ \A p \in 1..Len(result.batch) :
          /\ \E i \in 1..Len(call.queries) : call.queries[i] = result.batch[p].key
          /\ \A q \in 1..Len(result.batch) :
               p < q => FirstAt(result.batch[p].key) < FirstAt(result.batch[q].key)
          /\ LET alone == SearchOutcome(result.batch[p].key, call.top_k)
             IN /\ alone.kind = "return"
                /\ alone.value = result.batch[p].value
          /\ result.batch[p].key = <<>> => result.batch[p].value = <<>>

\* C13: a load_products step on a file that does not exist returns False,
\* raises nothing, and leaves products, titles and embeddings as they were.
C13_MissingFile ==
  [][(call'.op = "load_products" /\ ~call'.found)
       => /\ result' = ReturnBool(FALSE)
          /\ UNCHANGED <<products, titles, embeddings>>]_vars

\* a missing file named after a catalog was loaded and its index built
C13_Witness ==
  /\ call.op = "load_products"
  /\ ~call.found
  /\ products # <<>>
  /\ Built
  /\ result = ReturnBool(FALSE)

\* ------------------------------------------------------------------------
\* The engine on arbitrary text: a catalog whose first title is any short
\* text (or not a str at all), queried with that same text
\* ------------------------------------------------------------------------
Alphabet == {"a", "Z", " ", "\t", "1"}

\* texts longer than MaxText in which removing a character brings two
\* spaces together, or a run of whitespace sits between two words
LongTexts ==
  { <<"a", " ", "1", " ", "Z">>,
    <<"Z", " ", "\t", "a">>,
    <<" ", "a", "1", "Z", " ", " ">> }

Texts == UNION {[1..n -> Alphabet] : n \in 0..MaxText} \cup LongTexts

TitleValues == {Str(t) : t \in Texts} \cup {NonStr}

TextInit ==
  /\ \E x \in TitleValues :
       /\ products = <<Product(x, "1 DH"), Product(TvLed, "999 DH")>>
       /\ titles = <<x, TvLed>>
  /\ embeddings = None
  /\ vectorizer = NotFitted
  /\ csv = NoCsv
  /\ ties \in {"stable", "reversed"}
  /\ pc = "caller"
  /\ asked = NoAsked
  /\ stdin = <<>>
  /\ df = NoFrame
  /\ data_cleaned = NoCleaned
  /\ call = NoCall
  /\ result = NoOutcome

TextNext ==
  \/ call_preprocess_text(titles[1]) /\ UNCHANGED driver
  \/ call_preprocess_text_again /\ UNCHANGED driver
  \/ generate_embeddings /\ UNCHANGED driver
  \/ save_cleaned_data(products) /\ UNCHANGED driver
  \/ titles[1].isstr /\ search(titles[1].s, 1) /\ UNCHANGED driver
  \/ \E c \in {"Electronique", "Autre"} :
       titles[1].isstr /\ search_by_category(titles[1].s, c, 1) /\ UNCHANGED driver

TextSpec == TextInit /\ [][TextNext]_vars

\* lowercase letters a-z separated by single spaces, no space at either end
IsNormalForm(s) ==
  /\ \A i \in 1..Len(s) : IsLower(s[i]) \/ s[i] = " "
  /\ s # <<>> => (s[1] # " " /\ s[Len(s)] # " ")
  /\ \A i \in 1..(Len(s) - 1) : ~(s[i] = " " /\ s[i + 1] = " ")

\* C14: preprocess_text returns "" for a value that is not a str and, for a
\* str, lowercase letters separated by single spaces with no space at
\* either end; applying it to its own result changes nothing; and the texts
\* generate_embeddings, search and search_by_category hand to the
\* vectorizer are the preprocess_text of the titles, resp. of the query.
C14_Normalized ==
  /\ [](/\ call.op = "preprocess_text"
            => /\ result.kind = "return"
               /\ IsNormalForm(result.text)
               /\ ~titles[1].isstr => result.text = <<>>
        /\ \A i \in 1..Len(result.vectorized) :
             IsNormalForm(result.vectorized[i])
        /\ call.op = "generate_embeddings"
            => result.vectorized =
                 [i \in 1..Len(titles) |-> preprocess_text(titles[i])]
        /\ (call.op \in {"search", "search_by_category"}
             /\ result.vectorized # <<>>)
            => result.vectorized = <<preprocess_text(Str(call.query))>>)
  /\ [][call'.op = "preprocess_text again"
          => (result'.kind = "return" /\ result'.text = result.text)]_vars

\* preprocess_text applied to the result it gave for a title it had to
\* change in more than letter case
C14_Witness ==
  /\ call.op = "preprocess_text again"
  /\ titles[1].isstr
  /\ Len(result.text) > 0
  /\ Len(result.text) < Len(titles[1].s)

\* C15: with the three titles of the chocolate scenario loaded and indexed,
\* search("chocolate", 2) returns two entries, the items 0 and 2, and not
\* the item 1.
C15_Chocolate ==
  (/\ call.op = "search"
   /\ call.query = Chocolate
   /\ call.top_k = 2
   /\ products = CatChoco
   /\ Built)
  => /\ result.kind = "return"
     /\ Len(result.value) = 2
     /\ ResultIndices = {0, 2}

\* the search of the scenario was made and both entries have a positive
\* similarity
C15_Witness ==
  /\ call.op = "search"
  /\ call.query = Chocolate
  /\ call.top_k = 2
  /\ products = CatChoco
  /\ Built
  /\ Len(result.value) = 2
  /\ \A p \in 1..Len(result.value) : Positive(result.value[p].similarite)

\* ------------------------------------------------------------------------
\* A caller that repeats queries: it may remember a query and its outcome,
\* and forgets it when it loads a catalog or builds the index
\* ------------------------------------------------------------------------
\* the caller either remembers the call being made or keeps what it had
Remember ==
  \/ asked' = [set |-> TRUE, call |-> call', result |-> result', csv |-> csv]
  \/ asked' = asked

Forget == asked' = NoAsked

RepeatFiles == {[exists |-> TRUE, data |-> CatFour]}

RepeatQueries == { <<"L", "A", "I", "T", " ", "b", "i", "o">> }

RepeatNext ==
  \/ \E f \in RepeatFiles : load_products(f) /\ Forget /\ UNCHANGED <<pc, stdin, analyzer>>
  \/ generate_embeddings /\ Forget /\ UNCHANGED <<pc, stdin, analyzer>>
  \/ save_cleaned_data(CatFour) /\ UNCHANGED driver
  \/ \E q \in RepeatQueries, k \in 1..MaxTopK :
       search(q, k) /\ Remember /\ UNCHANGED <<pc, stdin, analyzer>>
  \/ \E q \in RepeatQueries, k \in 1..MaxTopK :
       search_by_category(q, "Alimentaire", k) /\ Remember /\ UNCHANGED <<pc, stdin, analyzer>>
  \/ \E i \in 0..MaxIndex, k \in 1..MaxTopK :
       similar_products(i, k) /\ Remember /\ UNCHANGED <<pc, stdin, analyzer>>

RepeatSpec == Init /\ [][RepeatNext]_vars

RankingOps == {"search", "search_by_category", "similar_products"}

Pairs(v) == [p \in 1..Len(v) |-> <<v[p].index, v[p].similarite>>]

\* C17: the file export_results writes, parsed back, holds for the exported
\* list, or for every query key of the exported dict in the same key order,
\* the (index, similarite) pairs of the results that were exported, in the
\* same order.
C17_RoundTrip ==
  [][call'.op = "export_results"
       => LET loaded == json_load(result'.written.text)
          IN /\ loaded.is_dict = (call.op = "batch_search")
             /\ Pairs(loaded.value) = Pairs(result.value)
             /\ Len(loaded.batch) = Len(result.batch)
             /\ \A p \in 1..Len(result.batch) :
                  /\ loaded.batch[p].key = result.batch[p].key
                  /\ Pairs(loaded.batch[p].value) = Pairs(result.batch[p].value)]_vars

\* a batch with a query that found products and a query that found none was
\* exported, one of the similarities not being a whole number
C17_Witness ==
  /\ call.op = "export_results"
  /\ result.written.exists
  /\ LET loaded == json_load(result.written.text)
     IN /\ loaded.is_dict
        /\ \E p \in 1..Len(loaded.batch) : loaded.batch[p].value = <<>>
        /\ \E p \in 1..Len(loaded.batch) :
             \E i \in 1..Len(loaded.batch[p].value) :
               loaded.batch[p].value[i].similarite.den > 1

\* the unigrams and the bigrams of a sequence of words
Grams(words) ==
  Range(words) \cup
    {words[j] \o <<" ">> \o words[j + 1] :
       j \in 1..(IF Len(words) = 0 THEN 0 ELSE Len(words) - 1)}

\* the words of the normalized title i, the spaces taken out
WordsOfTitle(i) == SplitWords(preprocess_text(titles[i]), <<>>)

\* the words of the normalized title i the vectorizer keeps as tokens
TokensOfTitle(i) == Tokens(preprocess_text(titles[i]))

\* the terms of cands (the candidate terms of each title) that pass the
\* min_df and max_df pruning; max_features does not bind on these catalogs
Surviving(cands) ==
  {t \in UNION {cands[i] : i \in DOMAIN cands} :
     LET seen_in == Cardinality({i \in DOMAIN cands : t \in cands[i]})
     IN seen_in >= min_df
        /\ seen_in * max_df_den <= max_df_num * Len(titles)}

JustBuilt ==
  /\ call.op = "generate_embeddings"
  /\ result.kind = "return"
  /\ result.ok

\* C18: the vocabulary generate_embeddings builds is made of the words of
\* the normalized titles and of the pairs of words adjacent in a normalized
\* title, all of them but those the min_df / max_df pruning removes.
C18_AdjacentTokens ==
  JustBuilt
  => Vocabulary(vectorizer) =
       Surviving([i \in 1..Len(titles) |-> Grams(WordsOfTitle(i))])

\* C18 as amended: ... of the tokens of the normalized titles (the words of
\* two letters or more that are not English stop words) and of the pairs of
\* tokens that follow each other once the other words are taken out.
C18_ConsecutiveTokens ==
  JustBuilt
  => Vocabulary(vectorizer) =
       Surviving([i \in 1..Len(titles) |-> Grams(TokensOfTitle(i))])

\* a vocabulary with a bigram whose two tokens are not adjacent in the
\* normalized title: a one-letter word stood between them
C18_Witness ==
  /\ JustBuilt
  /\ \E t \in Vocabulary(vectorizer) :
       /\ \E j \in 1..Len(t) : t[j] = " "
       /\ \A i \in 1..Len(titles) : t \notin Grams(WordsOfTitle(i))

\* the titles that have no term in the fitted vocabulary
NoTermLeft(i) ==
  \A t \in Range(Analyze(preprocess_text(titles[i]))) :
    t \notin Vocabulary(vectorizer)

\* C19: on a catalog that is not empty generate_embeddings returns True and
\* does not raise, also when every term of some or of all titles is pruned
\* (titles that normalize to "", a catalog of one item, terms in more than
\* 90% of the titles); a title without a term left has an all-zero row.
C19_NeverRaises ==
  (call.op = "generate_embeddings" /\ products # <<>>)
  => /\ result.kind = "return"
     /\ result.ok
     /\ Len(embeddings.rows) = Len(titles)
     /\ \A i \in 1..Len(titles) :
          NoTermLeft(i) => \A t \in DOMAIN embeddings.rows[i] :
                             embeddings.rows[i][t] = 0

\* ------------------------------------------------------------------------
\* main() and interactive_search(): pc is the statement main is at
\* ------------------------------------------------------------------------
\* a line read by input(): a text, or the end of the input
Line(s) == [eof |-> FALSE, s |-> s]

Eof == [eof |-> TRUE, s |-> <<>>]

test_queries ==
  << <<"p", "r", "o", "d", "u", "i", "t", "s", " ", "d", "e", " ", "b", "e", "a", "u", "t", "é">>,
     <<"é", "l", "e", "c", "t", "r", "o", "n", "i", "q", "u", "e", " ", "p", "a", "s", " ", "c", "h", "e", "r">>,
     <<"c", "h", "o", "c", "o", "l", "a", "t", " ", "e", "t", " ", "b", "o", "n", "b", "o", "n", "s">>,
     <<"n", "e", "t", "t", "o", "y", "a", "g", "e", " ", "d", "e", " ", "m", "a", "i", "s", "o", "n">>,
     <<"p", "r", "o", "d", "u", "i", "t", "s", " ", "b", "i", "o">> >>

\* the answers to "Voulez-vous essayer le mode interactif?"
Responses ==
  { Line(<<"o", "u", "i">>), Line(<<" ", "Y", " ">>), Line(<<"n", "o", "n">>),
    Line(<<>>), Eof }

Accepting == { <<"o", "u", "i">>, <<"y", "e", "s">>, <<"o">>, <<"y">> }

\* the lines typed at "Votre recherche:"
Lines ==
  { Line(<<"q", "u", "i", "t">>), Line(<<" ", "Q", "u", "i", "T", "\t">>),
    Line(<<>>), Line(<<" ", "\t">>),
    Line(<<"l", "a", "i", "t">>), Line(<<" ", "T", "V", " ", "l", "e", "d">>),
    Line(<<"q", "u", "i", "t", "s">>), Line(Chocolate),
    Line(<<"b", "i", "o", " ", " ", "l", "a", "i", "t">>), Eof }

MainFiles == JsonFiles \cup {[exists |-> TRUE, data |-> CatChoco]}

\* main() right after searcher = SemanticSearcher()
MainInit ==
  /\ products = <<>>
  /\ titles = <<>>
  /\ embeddings = None
  /\ vectorizer = NotFitted
  /\ csv = NoCsv
  /\ ties \in {"stable", "reversed"}
  /\ pc = "load_products"
  /\ asked = NoAsked
  /\ stdin = <<>>
  /\ df = NoFrame
  /\ data_cleaned = NoCleaned
  /\ call = NoCall
  /\ result = NoOutcome

\* where main goes after a call: an exception ends the program
AfterCall(on_true, on_false) ==
  IF result'.kind = "raise" THEN "crashed"
  ELSE IF result'.ok THEN on_true ELSE on_false

\* if not searcher.load_products(): return
main_load_products ==
  /\ pc = "load_products"
  /\ \E f \in MainFiles : load_products(f)
  /\ pc' = AfterCall("generate_embeddings", "done")
  /\ UNCHANGED <<asked, stdin, analyzer>>

\* the return value of generate_embeddings not looked at
main_generate_embeddings_unchecked ==
  /\ pc = "generate_embeddings"
  /\ generate_embeddings
  /\ pc' = AfterCall("batch_search", "batch_search")
  /\ UNCHANGED <<asked, stdin, analyzer>>

\* if not searcher.generate_embeddings(): return
main_generate_embeddings ==
  /\ pc = "generate_embeddings"
  /\ generate_embeddings
  /\ pc' = AfterCall("batch_search", "done")
  /\ UNCHANGED <<asked, stdin, analyzer>>

\* batch_results = searcher.batch_search(test_queries, top_k=3)
main_batch_search ==
  /\ pc = "batch_search"
  /\ batch_search(test_queries, 3)
  /\ pc' = IF result'.kind = "raise" THEN "crashed" ELSE "export_results"
  /\ UNCHANGED <<asked, stdin, analyzer>>

\* searcher.export_results(batch_results, 'search_results.json')
main_export_results ==
  /\ pc = "export_results"
  /\ export_results
  /\ pc' = "input"
  /\ UNCHANGED <<asked, stdin, analyzer>>

\* the user types a line while the program is at a prompt; the terminal
\* keeps the lines that were typed ahead, and nothing follows the end of
\* the input
type(line) ==
  /\ pc \in {"input", "interactive_search"}
  /\ Len(stdin) < MaxPending
  /\ stdin # <<>> => ~stdin[Len(stdin)].eof
  /\ stdin' = Append(stdin, line)
  /\ UNCHANGED <<products, titles, embeddings, vectorizer, csv, ties, pc,
                 asked, analyzer, call, result>>

\* input(...) takes the oldest line typed and returns it, or raises
\* EOFError at the end of the input; it waits while nothing is typed
Input ==
  /\ stdin # <<>>
  /\ call' = [NoCall EXCEPT !.op = "input"]
  /\ result' = IF Head(stdin).eof THEN Raise("EOFError")
                                  ELSE ReturnStr(Head(stdin).s)
  /\ stdin' = Tail(stdin)
  /\ UNCHANGED <<products, titles, embeddings, vectorizer, csv, ties>>

\* response = input("Réponse: ").strip().lower()
\* if response in ['oui', 'yes', 'o', 'y']: searcher.interactive_search()
main_input ==
  /\ pc = "input"
  /\ Input
  /\ pc' = IF Head(stdin).eof THEN "crashed"
           ELSE IF LowerStr(Strip(Head(stdin).s)) \in Accepting
             THEN "interactive_search"
             ELSE "done"
  /\ UNCHANGED <<asked, analyzer>>

quit == <<"q", "u", "i", "t">>

\* the loop comparing the line typed with 'quit' as it is, not lowered
interactive_search_case_sensitive ==
  /\ pc = "interactive_search"
  /\ stdin # <<>>
  /\ LET query == Strip(Head(stdin).s)
     IN IF Head(stdin).eof
          THEN Input /\ pc' = "crashed"
        ELSE IF query = quit
          THEN Input /\ pc' = "done"
        ELSE IF query = <<>>
          THEN Input /\ pc' = "interactive_search"
        ELSE /\ search(query, 5)
             /\ stdin' = Tail(stdin)
             /\ pc' = IF result'.kind = "raise" THEN "crashed"
                                                 ELSE "interactive_search"
  /\ UNCHANGED <<asked, analyzer>>

\* one turn of the loop of interactive_search
interactive_search ==
  /\ pc = "interactive_search"
  /\ stdin # <<>>
  /\ LET query == Strip(Head(stdin).s)
     IN IF Head(stdin).eof
          THEN Input /\ pc' = "crashed"
        ELSE IF LowerStr(query) = quit
          THEN Input /\ pc' = "done"
        ELSE IF query = <<>>
          THEN Input /\ pc' = "interactive_search"
        ELSE /\ search(query, 5)
             /\ stdin' = Tail(stdin)
             /\ pc' = IF result'.kind = "raise" THEN "crashed"
                                                 ELSE "interactive_search"
  /\ UNCHANGED <<asked, analyzer>>

MainNext ==
  \/ main_load_products
  \/ main_generate_embeddings
  \/ main_batch_search
  \/ main_export_results
  \/ \E line \in Responses \cup Lines : type(line)
  \/ main_input
  \/ interactive_search

MainSpec == MainInit /\ [][MainNext]_vars

\* a call that told main to stop: it returned False
ReturnedFalse ==
  /\ call.op \in {"load_products", "generate_embeddings"}
  /\ result.kind = "return"
  /\ ~result.ok

ReturnedTrue(op) ==
  /\ call.op = op
  /\ result.kind = "return"
  /\ result.ok

\* a step of the user, not of the program
Typing == Len(stdin') = Len(stdin) + 1

\* C20: in main, generate_embeddings is called only right after
\* load_products returned True, batch_search only right after
\* generate_embeddings returned True, export_results only right after
\* batch_search returned the mapping of all the test queries, the prompts
\* and the interactive searches only after the export; and nothing at all
\* follows a load_products or a generate_embeddings that returned False.
C20_MainOrder ==
  [][\/ Typing
     \/ /\ ~ReturnedFalse
        /\ call'.op = "generate_embeddings" => ReturnedTrue("load_products")
        /\ call'.op = "batch_search" => ReturnedTrue("generate_embeddings")
        /\ call'.op = "export_results"
             => /\ call.op = "batch_search"
                /\ result.kind = "return"
                /\ \A i \in 1..Len(test_queries) :
                     \E p \in 1..Len(result.batch) :
                       result.batch[p].key = test_queries[i]
        /\ call'.op \in {"input", "search"}
             => call.op \in {"export_results", "input", "search"}
        /\ call'.op = "load_products" => call.op = "init"]_vars

\* the export of a batch in which a test query found products
C20_Witness ==
  /\ pc = "input"
  /\ call.op = "export_results"
  /\ result.written.exists
  /\ LET loaded == json_load(result.written.text)
     IN /\ Len(loaded.batch) = Len(test_queries)
        /\ \E p \in 1..Len(loaded.batch) : loaded.batch[p].value # <<>>

\* ------------------------------------------------------------------------
\* The interactive loop at a terminal
\* ------------------------------------------------------------------------
\* a turn of the loop, seen from the terminal: the oldest line typed is
\* read. Every step of interactive_search is one, no other step of MainNext
\* is, and interactive_search can take a step exactly when the loop runs and
\* a line is typed.
Turn ==
  /\ pc = "interactive_search"
  /\ stdin # <<>>
  /\ stdin' = Tail(stdin)

\* main() where the loop of interactive_search, once a line is typed, takes
\* its turn: input() returns as soon as a line is there to be read
InteractiveSpec == MainSpec /\ WF_stdin(Turn)

IsQuit(line) == ~line.eof /\ LowerStr(Strip(line.s)) = quit

IsBlank(line) == ~line.eof /\ Strip(line.s) = <<>>

\* C21: every turn of interactive_search reads exactly one line, the oldest
\* one typed; on a line that is 'quit' in any letter case once trimmed it
\* ends the loop without a search; on an empty or whitespace-only line it
\* makes no search and stays in the loop; on any other line it makes the
\* one call search(trimmed line, top_k=5); and once a 'quit' line is typed
\* while the loop runs, the loop eventually ends.
C21_InteractiveLoop ==
  /\ [][pc = "interactive_search" /\ ~Typing
          => /\ stdin # <<>>
             /\ stdin' = Tail(stdin)
             /\ IsQuit(Head(stdin))
                  => pc' = "done" /\ call'.op = "input"
             /\ IsBlank(Head(stdin))
                  => pc' = "interactive_search" /\ call'.op = "input"
             /\ ~Head(stdin).eof /\ ~IsQuit(Head(stdin))
                                 /\ ~IsBlank(Head(stdin))
                  => /\ call' = [NoCall EXCEPT !.op = "search",
                                               !.query = Strip(Head(stdin).s),
                                               !.top_k = 5]
                     /\ result' = SearchOutcome(Strip(Head(stdin).s), 5)]_vars
  /\ (pc = "interactive_search" /\ \E i \in DOMAIN stdin : IsQuit(stdin[i]))
       ~> pc # "interactive_search"

\* a search that found products was made for a line typed with spaces
\* around it, and a blank line and then a 'QuiT' wait to be read
C21_Witness ==
  /\ pc = "interactive_search"
  /\ call.op = "search"
  /\ call.top_k = 5
  /\ result.kind = "return"
  /\ result.value # <<>>
  /\ Len(stdin) = 2
  /\ IsBlank(stdin[1])
  /\ IsQuit(stdin[2])
  /\ stdin[2].s # quit

\* ------------------------------------------------------------------------
\* DataAnalyzer (src/analyse.py): the promotion columns of clean_data
\* ------------------------------------------------------------------------
\* the price of a product in produits_marjane.json: a text, or null
\* ('12 DH', 'Remise 10 DH', '20 DH - 15 DH', '20% DH', '2 ACHETÉS 30 DH',
\* 'Offre 5 DH', 'PROMOTION 5 DH', '')
Prices ==
  { Str(<<"1", "2", " ", "D", "H">>),
    Str(<<"R", "e", "m", "i", "s", "e", " ", "1", "0", " ", "D", "H">>),
    Str(<<"2", "0", " ", "D", "H", " ", "-", " ", "1", "5", " ", "D", "H">>),
    Str(<<"2", "0", "%", " ", "D", "H">>),
    Str(<<"2", " ", "A", "C", "H", "E", "T", "É", "S", " ", "3", "0", " ", "D", "H">>),
    Str(<<"O", "f", "f", "r", "e", " ", "5", " ", "D", "H">>),
    Str(<<"P", "R", "O", "M", "O", "T", "I", "O", "N", " ", "5", " ", "D", "H">>),
    Str(<<>>),
    NonStr }

\* no file, or a file of at most MaxRows products, of which the price
\* column is kept
AnalyzerFiles ==
  {[exists |-> FALSE, price |-> <<>>]}
    \cup {[exists |-> TRUE, price |-> c] :
             c \in UNION {[1..n -> Prices] : n \in 0..MaxRows}}

\* self.df after load_data(): pd.DataFrame(data), or still None when the
\* file is not found
load_data(json_file) ==
  IF json_file.exists THEN [isnone |-> FALSE, price |-> json_file.price]
                      ELSE NoFrame

\* the alternatives of the pattern 'remise|promotion|-|%|achetés|offre'
promotion_pattern ==
  { <<"r", "e", "m", "i", "s", "e">>,
    <<"p", "r", "o", "m", "o", "t", "i", "o", "n">>,
    <<"-">>,
    <<"%">>,
    <<"a", "c", "h", "e", "t", "é", "s">>,
    <<"o", "f", "f", "r", "e">> }

\* df['price'].str.lower().str.contains(pattern, na=False, regex=True)
\* on one price: a price that is not a text gives NaN, which na=False
\* turns into False
str_contains(price) ==
  /\ price.isstr
  /\ \E alt \in promotion_pattern : IsSubstring(alt, LowerStr(price.s))

extract_promotion_type(price_str) ==
  IF ~price_str.isstr \/ price_str.s = <<>> THEN "Aucune"
  ELSE LET price_lower == LowerStr(price_str.s)
       IN IF IsSubstring(<<"r", "e", "m", "i", "s", "e">>, price_lower)
               \/ IsSubstring(<<"-">>, price_str.s)
            THEN "Remise"
          ELSE IF IsSubstring(<<"%">>, price_str.s)
            THEN "Pourcentage"
          ELSE IF IsSubstring(<<"a", "c", "h", "e", "t", "é", "s">>, price_lower)
            THEN "Promotion multi-achat"
          ELSE IF IsSubstring(<<"o", "f", "f", "r", "e">>, price_lower)
            THEN "Offre spéciale"
          ELSE "Aucune"

\* clean_data(): self.df.copy() fails on None, df['title'] on a frame with
\* no column (an empty file); otherwise the columns are computed and the
\* frame is kept in self.data_cleaned and returned
clean_data ==
  /\ call' = [NoCall EXCEPT !.op = "clean_data"]
  /\ IF df.isnone
       THEN result' = Raise("AttributeError") /\ UNCHANGED data_cleaned
     ELSE IF df.price = <<>>
       THEN result' = Raise("KeyError") /\ UNCHANGED data_cleaned
     ELSE /\ data_cleaned' =
               [isnone |-> FALSE,
                price |-> df.price,
                en_promotion |->
                  [i \in 1..Len(df.price) |-> str_contains(df.price[i])],
                type_promotion |->
                  [i \in 1..Len(df.price) |->
                     extract_promotion_type(df.price[i])]]
          /\ result' = ReturnNone
  /\ UNCHANGED <<products, titles, embeddings, vectorizer, csv, ties, pc,
                 asked, stdin, df>>

\* display_sample(n): for each of the first n rows of self.data_cleaned,
\* the line "Promotion: ..." printed is a check mark and the type of
\* promotion, or a cross and 'Non'
display_sample(n) ==
  /\ call' = [NoCall EXCEPT !.op = "display_sample"]
  /\ result' =
       IF data_cleaned.isnone THEN ReturnNone
       ELSE [ReturnNone EXCEPT !.printed =
               [row \in 1..Min(n, Len(data_cleaned.price)) |->
                  IF data_cleaned.en_promotion[row]
                    THEN [mark |-> "check",
                          shown |-> data_cleaned.type_promotion[row]]
                    ELSE [mark |-> "cross", shown |-> "Non"]]]
  /\ UNCHANGED <<products, titles, embeddings, vectorizer, csv, ties, pc,
                 asked, stdin, analyzer>>

\* analyzer = DataAnalyzer(): the constructor has loaded the file
AnalyzerInit ==
  /\ products = <<>>
  /\ titles = <<>>
  /\ embeddings = None
  /\ vectorizer = NotFitted
  /\ csv = NoCsv
  /\ ties \in {"stable", "reversed"}
  /\ pc = "caller"
  /\ asked = NoAsked
  /\ stdin = <<>>
  /\ \E f \in AnalyzerFiles : df = load_data(f)
  /\ data_cleaned = NoCleaned
  /\ call = NoCall
  /\ result = NoOutcome

AnalyzerNext ==
  \/ clean_data
  \/ \E n \in {1, 5} : display_sample(n)

AnalyzerSpec == AnalyzerInit /\ [][AnalyzerNext]_vars

\* C22: in the cleaned data, a product is flagged en_promotion exactly when
\* its type_promotion is not 'Aucune'.
C22_FlagMatchesType ==
  ~data_cleaned.isnone
  => \A i \in 1..Len(data_cleaned.price) :
       data_cleaned.en_promotion[i]
         <=> data_cleaned.type_promotion[i] # "Aucune"

====
